---- MODULE Spec2Model ----
(***************************************************************************)
(* dstocc: loads dirsearch JSON results, filters the sub-paths by HTTP     *)
(* status code and captures every remaining URL with an external command   *)
(* run by a pool of worker threads (src/dstocc.py).                        *)
(*                                                                         *)
(* Strings are sequences of one-character strings, so that concatenation   *)
(* is \o.  A work item is identified by its position in the list `urls`    *)
(* (the queue holds that position; the URL text is urls[position]), so     *)
(* that two equal URL strings remain two items.                            *)
(***************************************************************************)
EXTENDS Integers, Sequences, FiniteSets, Bags, TLC

\* ---------------------------------------------------------------- bounds
\* Largest number of sub-path entries of a results document of a run.
MaxTargets == 2
\* Largest total number of sub-path entries of a document in FilterSpec.
MaxEntries == 3
\* Most characters of a sub-path in the documents of ExecSpec.
MaxPathLen == 2
\* Most sleeps of one polling loop that are explored; more than the
\* PollsPerSecond * 1 sleeps that a loop with a timeout of one second can make.
MaxPolls == 12

\* ------------------------------------------------------ program constants
\* attempts = timeout * 10: polls per second of timeout.
PollsPerSecond == 10

\* Values of --timeout explored (type=int).
Timeouts == {0, 1}
\* The defaults of --threads and --timeout.
DefaultThreads == 4
DefaultTimeout == 20
\* Values of --threads explored (type=int): no worker, one, two.  Each
\* further worker multiplies the states by those of one more polling loop.
WorkerCounts == {0, 1, 2}
\* HTTP status codes of the explored documents.
Codes == {200, 404}
\* Values of --include / --exclude explored (default [] = the empty list).
CodeFilters == SUBSET Codes
\* Exit codes of the explored child processes.
ExitCodes == {0, 1}

BaseURLs == {<<"h">>, <<"h", "/">>}
Paths == {<<"a">>, <<"/", "a">>}
SubPaths == [path : Paths, status : Codes]

Items == 1..MaxTargets
\* The worker threads a run can start (worker_id + 1).
Workers == UNION {1..c : c \in WorkerCounts}

VARIABLES
    args,             \* parse_args(): results document, filters, threads, timeout
    urls,             \* main: the filtered, shuffled target list
    mainpc,           \* position of the main thread
    mainidx,          \* main: loop counter of the two for loops
    exit_code,        \* status the process exited with, -1 while it runs
    queue,            \* Queue: the unclaimed items, oldest first
    unfinished_tasks, \* Queue.unfinished_tasks: put() minus task_done()
    workers,          \* per worker thread: pc, url (item), attempts, polls
    proc,             \* per item: the child process spawned for it
    hist              \* per item: what has happened to it (history)

vars == <<args, urls, mainpc, mainidx, exit_code, queue, unfinished_tasks,
          workers, proc, hist>>

\* ------------------------------------------------------------- documents
RECURSIVE SeqsUpTo(_, _)
SeqsUpTo(S, n) ==
    IF n = 0 THEN {<<>>}
    ELSE LET shorter == SeqsUpTo(S, n - 1)
         IN  shorter \cup {Append(s, x) : s \in {t \in shorter : Len(t) = n - 1}, x \in S}

RECURSIVE SumLen(_, _)
SumLen(f, D) ==
    IF D = {} THEN 0
    ELSE LET k == CHOOSE x \in D : TRUE
         IN  Len(f[k]) + SumLen(f, D \ {k})

\* Parsed documents: a mapping from base URL to a list of sub-path entries,
\* with at most n entries in all.
ResultsUpTo(n) ==
    UNION {{r \in [D -> SeqsUpTo(SubPaths, n)] : SumLen(r, D) <= n} : D \in SUBSET BaseURLs}

\* The content of the results file: "nobrace" has no '{', "badjson" is not
\* JSON after the first '{', "badshape" is JSON of another shape.
BadDocs == {[kind |-> k, results |-> <<>>] : k \in {"nobrace", "badjson", "badshape"}}
OkDoc(r) == [kind |-> "ok", results |-> r]

\* ------------------------------------------------------ load_target_urls
\* "if status_code in excluded_codes: continue / elif not included_codes or
\* status_code in included_codes: append".
KeepIncludeFirst(status_code, included_codes, excluded_codes) ==
    included_codes = {} \/ status_code \in included_codes

KeepSubPath(status_code, included_codes, excluded_codes) ==
    IF status_code \in excluded_codes THEN FALSE
    ELSE included_codes = {} \/ status_code \in included_codes

\* The inner loop over the sub-paths of one URL.
RECURSIVE FilterSubPaths(_, _, _, _)
FilterSubPaths(url, sub_paths, included_codes, excluded_codes) ==
    IF sub_paths = <<>> THEN <<>>
    ELSE LET sub_path == Head(sub_paths)
             rest == FilterSubPaths(url, Tail(sub_paths), included_codes, excluded_codes)
         IN  IF KeepSubPath(sub_path.status, included_codes, excluded_codes)
             THEN <<url \o sub_path.path>> \o rest
             ELSE rest

\* The outer loop, over the keys in the order `keys` that iterkeys() yields.
RECURSIVE FilterResults(_, _, _, _)
FilterResults(results, keys, included_codes, excluded_codes) ==
    IF keys = <<>> THEN <<>>
    ELSE FilterSubPaths(Head(keys), results[Head(keys)], included_codes, excluded_codes)
         \o FilterResults(results, Tail(keys), included_codes, excluded_codes)

\* The orders in which the elements of a finite set can be listed.
Orders(S) ==
    {o \in [1..Cardinality(S) -> S] : \A i, j \in 1..Cardinality(S) : i # j => o[i] # o[j]}

\* random.shuffle: every rearrangement of the list is a possible result.
Shuffles(list) ==
    {[i \in 1..Len(list) |-> list[p[i]]] : p \in Orders(1..Len(list))}

\* Every list load_target_urls can return for a parsed document.
load_target_urls(results, included_codes, excluded_codes) ==
    UNION {Shuffles(FilterResults(results, keys, included_codes, excluded_codes)) :
           keys \in Orders(DOMAIN results)}

\* ------------------------------------------------------------ the inputs
\* The document of a run with n sub-path entries under one base URL; the
\* second entry was answered 404, the others 200.
RunDoc(n) ==
    OkDoc([b \in {<<"h">>} |->
             [k \in 1..n |-> [path |-> <<"/", "a">>,
                              status |-> IF k = 2 THEN 404 ELSE 200]]])

RunDocs == BadDocs \cup {RunDoc(n) : n \in 0..MaxTargets}

\* --include / --exclude of the explored runs: the defaults, an include
\* list, and a code that is both included and excluded.
RunFilters ==
    {[included_codes |-> {}, excluded_codes |-> {}],
     [included_codes |-> {200}, excluded_codes |-> {}],
     [included_codes |-> {404}, excluded_codes |-> {404}]}

\* --command-template of the explored runs: the default with a one-letter
\* program and without its two fixed options.
RunTemplate ==
    <<"c", " ", "-", "u", "=", "%", "U", "R", "L", "%", " ",
      "-", "o", "=", "%", "F", "I", "L", "E", "N", "A", "M", "E", "%">>

ArgumentsWith(docs, filters, counts, timeouts, templates) ==
    {[results_file |-> d, included_codes |-> f.included_codes,
      excluded_codes |-> f.excluded_codes, worker_threads |-> n, timeout |-> t,
      command_template |-> c] :
     d \in docs, f \in filters, n \in counts, t \in timeouts, c \in templates}

Arguments(docs, filters, counts, timeouts) ==
    ArgumentsWith(docs, filters, counts, timeouts, {RunTemplate})

\* A child process is "none" (not spawned), "running", "zombie" (exited, not
\* reaped), "reaped" (exited, and poll() has collected its status) or
\* "killed" (dead of the SIGTERM sent to it).
NoProc == "none"

\* returncode is -1 until the capture reads it; waited is the number of
\* sleeps made when the timeout was logged.
NoHist ==
    [claimed |-> 0, invoked |-> 0, acked |-> 0, outcome |-> "none",
     returncode |-> -1, waited |-> -1, terminated |-> 0]

IdleWorker == [pc |-> "unstarted", url |-> 0, attempts |-> 0, polls |-> 0]

InitWith(arguments) ==
    /\ args \in arguments
    /\ urls = <<>>
    /\ mainpc = "load"
    /\ mainidx = 0
    /\ exit_code = -1
    /\ queue = <<>>
    /\ unfinished_tasks = 0
    /\ workers = [w \in Workers |-> IdleWorker]
    /\ proc = [i \in Items |-> NoProc]
    /\ hist = [i \in Items |-> NoHist]

Init == InitWith(Arguments(RunDocs, RunFilters, WorkerCounts, Timeouts))

\* ------------------------------------------------------------------ Queue
\* Queue.get(): the item handed out, and the queue it leaves behind.
QueueFront(q) == Head(q)

QueueKeepFront(q) == q

QueueAfterGet(q) == Tail(q)

\* Queue.empty() / Queue.qsize().
QueueEmpty(q) == Len(q) = 0

\* Queue.join() returns once unfinished_tasks has dropped to zero.
JoinReturnsAlways == TRUE

JoinReturns == unfinished_tasks = 0

\* ------------------------------------------------------------------- exit
\* exit(n) raises SystemExit(n); __main__ catches it and calls
\* exit(int(str(exit_code))), which ends the process with status n.
Exit(n) ==
    /\ mainpc' = "exit"
    /\ exit_code' = n

Running == mainpc # "exit"

\* ------------------------------------------------------------------- main
\* "if len(urls)".
AnyLen(list) == TRUE

HasTargets(list) == Len(list) # 0

\* load_target_urls raised: no '{' (ValueError from index), invalid JSON
\* (ValueError from json.loads) or another shape (TypeError / KeyError).
MainLoadFails ==
    /\ mainpc = "load"
    /\ args.results_file.kind # "ok"
    /\ Exit(1)
    /\ UNCHANGED <<args, urls, mainidx, queue, unfinished_tasks, workers, proc, hist>>

MainLoad ==
    /\ mainpc = "load"
    /\ args.results_file.kind = "ok"
    /\ urls' \in load_target_urls(args.results_file.results,
                                  args.included_codes, args.excluded_codes)
    /\ mainpc' = "check"
    /\ UNCHANGED <<args, mainidx, exit_code, queue, unfinished_tasks, workers, proc, hist>>

MainCheckTargets ==
    /\ mainpc = "check"
    /\ HasTargets(urls)
    /\ mainpc' = "populate"
    /\ mainidx' = 0
    /\ UNCHANGED <<args, urls, exit_code, queue, unfinished_tasks, workers, proc, hist>>

MainNoTargets ==
    /\ mainpc = "check"
    /\ ~HasTargets(urls)
    /\ Exit(1)
    /\ UNCHANGED <<args, urls, mainidx, queue, unfinished_tasks, workers, proc, hist>>

\* "for url in urls: queue.put(url)".
\* "for url in urls": whether the loop has a next element after idx.
StopAfterFirst(idx, list) == idx < 1 /\ idx < Len(list)

MoreURLs(idx, list) == idx < Len(list)

\* "range(args.worker_threads)": whether worker_id is in it.
InRangeInclusive(worker_id, n) == worker_id <= n

InRange(worker_id, n) == worker_id < n

MainPut ==
    /\ mainpc = "populate"
    /\ MoreURLs(mainidx, urls)
    /\ mainidx' = mainidx + 1
    /\ queue' = Append(queue, mainidx + 1)
    /\ unfinished_tasks' = unfinished_tasks + 1
    /\ UNCHANGED <<args, urls, mainpc, exit_code, workers, proc, hist>>

MainPopulated ==
    /\ mainpc = "populate"
    /\ ~MoreURLs(mainidx, urls)
    /\ mainpc' = "start"
    /\ mainidx' = 0
    /\ UNCHANGED <<args, urls, exit_code, queue, unfinished_tasks, workers, proc, hist>>

\* "for worker_id in range(args.worker_threads): ... worker.start()".
MainStartWorker ==
    /\ mainpc = "start"
    /\ InRange(mainidx, args.worker_threads)
    /\ mainidx' = mainidx + 1
    /\ workers' = [workers EXCEPT ![mainidx + 1].pc = "get"]
    /\ UNCHANGED <<args, urls, mainpc, exit_code, queue, unfinished_tasks, proc, hist>>

MainStarted ==
    /\ mainpc = "start"
    /\ ~InRange(mainidx, args.worker_threads)
    /\ mainpc' = "loop"
    /\ UNCHANGED <<args, urls, mainidx, exit_code, queue, unfinished_tasks, workers, proc, hist>>

\* "while not queue.empty()".
MainLoopTest ==
    /\ mainpc = "loop"
    /\ mainpc' = IF QueueEmpty(queue) THEN "join" ELSE "report"
    /\ UNCHANGED <<args, urls, mainidx, exit_code, queue, unfinished_tasks, workers, proc, hist>>

\* "log.info(... queue.qsize()); time.sleep(3)".
MainReport ==
    /\ mainpc = "report"
    /\ mainpc' = "loop"
    /\ UNCHANGED <<args, urls, mainidx, exit_code, queue, unfinished_tasks, workers, proc, hist>>

\* "queue.join()".
MainJoin ==
    /\ mainpc = "join"
    /\ JoinReturns
    /\ mainpc' = "finish"
    /\ UNCHANGED <<args, urls, mainidx, exit_code, queue, unfinished_tasks, workers, proc, hist>>

\* "log.info('Finished capturing ...'); exit(0)".
MainFinish ==
    /\ mainpc = "finish"
    /\ Exit(0)
    /\ UNCHANGED <<args, urls, mainidx, queue, unfinished_tasks, workers, proc, hist>>

\* KeyboardInterrupt raised in the main thread: "except KeyboardInterrupt:
\* ... exit(3)".  Nothing is done about the worker threads (daemon threads,
\* gone with the process) or about the child processes.
Interrupt ==
    /\ Running
    /\ Exit(3)
    /\ UNCHANGED <<args, urls, mainidx, queue, unfinished_tasks, workers, proc, hist>>

MainStep ==
    \/ MainLoadFails
    \/ MainLoad
    \/ MainCheckTargets
    \/ MainNoTargets
    \/ MainPut
    \/ MainPopulated
    \/ MainStartWorker
    \/ MainStarted
    \/ MainLoopTest
    \/ MainReport
    \/ MainJoin
    \/ MainFinish

\* ---------------------------------------------------------- cutycapt_exec
\* string.letters (no locale is set) and string.digits.
Letters ==
    {"a", "b", "c", "d", "e", "f", "g", "h", "i", "j", "k", "l", "m",
     "n", "o", "p", "q", "r", "s", "t", "u", "v", "w", "x", "y", "z",
     "A", "B", "C", "D", "E", "F", "G", "H", "I", "J", "K", "L", "M",
     "N", "O", "P", "Q", "R", "S", "T", "U", "V", "W", "X", "Y", "Z"}

Digits == {"0", "1", "2", "3", "4", "5", "6", "7", "8", "9"}

\* "safe_chars = string.letters + string.digits + '-_.='".
safe_chars == Letters \cup Digits \cup {"-", "_", ".", "="}

\* Whether string s starts with string old.
StartsWith(s, old) ==
    /\ Len(s) >= Len(old)
    /\ SubSeq(s, 1, Len(old)) = old

\* str.replace(old, new), for a non-empty old: the occurrences of old are
\* found from the left, without overlap, and each gives way to new.
RECURSIVE Replace(_, _, _)
Replace(s, old, new) ==
    IF s = <<>> THEN <<>>
    ELSE IF StartsWith(s, old)
         THEN new \o Replace(SubSeq(s, Len(old) + 1, Len(s)), old, new)
         ELSE <<Head(s)>> \o Replace(Tail(s), old, new)

\* "filter(lambda char: char in safe_chars, file_name)".
IsSafe(char) == char \in safe_chars

\* "file_name = url.replace('/', '_'); file_name = file_name.replace(':',
\* '-'); file_name = filter(...); file_name += '.png'".
FileNameColonKept(url) ==
    SelectSeq(Replace(url, <<"/">>, <<"_">>), IsSafe) \o <<".", "p", "n", "g">>

file_name(url) ==
    SelectSeq(Replace(Replace(url, <<"/">>, <<"_">>), <<":">>, <<"-">>), IsSafe)
        \o <<".", "p", "n", "g">>

\* str.split(' '): the pieces between the spaces; two spaces in a row, or
\* a space at an end, give an empty piece.
RECURSIVE Split(_)
Split(s) ==
    IF \A k \in 1..Len(s) : s[k] # " " THEN <<s>>
    ELSE LET k == CHOOSE j \in 1..Len(s) :
                      s[j] = " " /\ \A m \in 1..(j - 1) : s[m] # " "
         IN  <<SubSeq(s, 1, k - 1)>> \o Split(SubSeq(s, k + 1, Len(s)))

URLToken == <<"%", "U", "R", "L", "%">>

FileNameToken == <<"%", "F", "I", "L", "E", "N", "A", "M", "E", "%">>

\* "command = command_template.replace('%URL%', url); command =
\* command.replace('%FILENAME%', file_name)", and the "command.split(' ')"
\* that Popen is given.
Command(url, command_template) ==
    Split(Replace(Replace(command_template, URLToken, url),
                  FileNameToken, file_name(url)))

\* "attempts = timeout * 10".
AttemptsOneShort(timeout) == timeout * PollsPerSecond - 1

InitialAttempts(timeout) == timeout * PollsPerSecond

\* shell_exec.poll() is None: the child has not exited.
StillRunning(i) == proc[i] = "running"

\* What poll() leaves of the child: an exited child is reaped, which sets
\* returncode.
Polled(p) == IF p = "zombie" THEN "reaped" ELSE p

\* "if exit_code != 0": the failure is logged, else the capture.
Classify(returncode) == IF returncode # 0 THEN "NonZeroExit" ELSE "Success"

\* ------------------------------------------------------- cutycapt_worker
\* "url = queue.get()": blocks while the queue is empty.
WorkerGet(w) ==
    /\ Running
    /\ workers[w].pc = "get"
    /\ ~QueueEmpty(queue)
    /\ LET i == QueueFront(queue)
       IN  /\ workers' = [workers EXCEPT ![w].pc = "exec", ![w].url = i]
           /\ hist' = [hist EXCEPT ![i].claimed = @ + 1]
    /\ queue' = QueueAfterGet(queue)
    /\ UNCHANGED <<args, urls, mainpc, mainidx, exit_code, unfinished_tasks, proc>>

\* cutycapt_exec up to subprocess.Popen, which started the child.
WorkerSpawn(w) ==
    /\ Running
    /\ workers[w].pc = "exec"
    /\ LET i == workers[w].url
       IN  /\ proc' = [proc EXCEPT ![i] = "running"]
           /\ hist' = [hist EXCEPT ![i].invoked = @ + 1]
    /\ workers' = [workers EXCEPT ![w].pc = "poll",
                                  ![w].attempts = InitialAttempts(args.timeout),
                                  ![w].polls = 0]
    /\ UNCHANGED <<args, urls, mainpc, mainidx, exit_code, queue, unfinished_tasks>>

\* subprocess.Popen raised OSError (no such binary, no permission, no more
\* processes): nothing in cutycapt_exec or cutycapt_worker catches it, so it
\* ends the thread, with the item never acknowledged.
WorkerSpawnFails(w) ==
    /\ Running
    /\ workers[w].pc = "exec"
    /\ LET i == workers[w].url
       IN  hist' = [hist EXCEPT ![i].invoked = @ + 1, ![i].outcome = "SpawnFailure"]
    /\ workers' = [workers EXCEPT ![w].pc = "crashed"]
    /\ UNCHANGED <<args, urls, mainpc, mainidx, exit_code, queue, unfinished_tasks, proc>>

\* One turn of "while shell_exec.poll() is None and attempts:
\* attempts -= 1; time.sleep(0.1)".
WorkerPollSleep(w) ==
    /\ Running
    /\ workers[w].pc = "poll"
    /\ StillRunning(workers[w].url)
    /\ workers[w].attempts # 0
    /\ workers[w].polls < MaxPolls
    /\ workers' = [workers EXCEPT ![w].attempts = @ - 1, ![w].polls = @ + 1]
    /\ UNCHANGED <<args, urls, mainpc, mainidx, exit_code, queue, unfinished_tasks, proc, hist>>

\* The test that ends the loop: poll() is called first and reaps an exited
\* child whatever attempts is.
WorkerPollEnds(w) ==
    /\ Running
    /\ workers[w].pc = "poll"
    /\ ~(StillRunning(workers[w].url) /\ workers[w].attempts # 0)
    /\ proc' = [proc EXCEPT ![workers[w].url] = Polled(@)]
    /\ workers' = [workers EXCEPT ![w].pc = "check"]
    /\ UNCHANGED <<args, urls, mainpc, mainidx, exit_code, queue, unfinished_tasks, hist>>

\* "if not attempts:" log the timeout, shell_exec.terminate(), return.
\* terminate() is os.kill(pid, SIGTERM): it does not wait for the child.
TimedOut(i, polls) ==
    [hist EXCEPT ![i].outcome = "TimedOut", ![i].waited = polls,
                 ![i].terminated = @ + 1]

\* The child is running, or has exited since the last poll() and is not
\* reaped: the signal is sent and terminate() returns.
WorkerTimeout(w) ==
    /\ Running
    /\ workers[w].pc = "check"
    /\ workers[w].attempts = 0
    /\ proc[workers[w].url] # "reaped"
    /\ hist' = TimedOut(workers[w].url, workers[w].polls)
    /\ workers' = [workers EXCEPT ![w].pc = "task_done"]
    /\ UNCHANGED <<args, urls, mainpc, mainidx, exit_code, queue, unfinished_tasks, proc>>

\* The child was reaped by the last poll(): its pid is no longer its own.
\* os.kill raises OSError (no such process), which ends the thread, unless
\* the pid has been given to another process, which then gets the signal.
WorkerTimeoutReaped(w) ==
    /\ Running
    /\ workers[w].pc = "check"
    /\ workers[w].attempts = 0
    /\ proc[workers[w].url] = "reaped"
    /\ hist' = TimedOut(workers[w].url, workers[w].polls)
    /\ \/ workers' = [workers EXCEPT ![w].pc = "crashed"]
       \/ workers' = [workers EXCEPT ![w].pc = "task_done"]
    /\ UNCHANGED <<args, urls, mainpc, mainidx, exit_code, queue, unfinished_tasks, proc>>

\* "output = shell_exec.communicate(); exit_code = shell_exec.returncode;
\* if exit_code != 0: log the failure; return" / log the capture; return.
\* The loop ended with attempts left, so poll() has seen the child exit.  The
\* status the child exited with is any exit code; it is drawn here, where
\* the program first reads it.
WorkerExited(w) ==
    /\ Running
    /\ workers[w].pc = "check"
    /\ workers[w].attempts # 0
    /\ \E returncode \in ExitCodes :
           hist' = [hist EXCEPT ![workers[w].url].returncode = returncode,
                                ![workers[w].url].outcome = Classify(returncode)]
    /\ workers' = [workers EXCEPT ![w].pc = "task_done"]
    /\ UNCHANGED <<args, urls, mainpc, mainidx, exit_code, queue, unfinished_tasks, proc>>

\* "queue.task_done()", and back to the top of "while True".
WorkerTaskDone(w) ==
    /\ Running
    /\ workers[w].pc = "task_done"
    /\ unfinished_tasks' = unfinished_tasks - 1
    /\ hist' = [hist EXCEPT ![workers[w].url].acked = @ + 1]
    /\ workers' = [workers EXCEPT ![w].pc = "get"]
    /\ UNCHANGED <<args, urls, mainpc, mainidx, exit_code, queue, proc>>

WorkerStep(w) ==
    \/ WorkerGet(w)
    \/ WorkerSpawn(w)
    \/ WorkerSpawnFails(w)
    \/ WorkerPollSleep(w)
    \/ WorkerPollEnds(w)
    \/ WorkerTimeout(w)
    \/ WorkerTimeoutReaped(w)
    \/ WorkerExited(w)
    \/ WorkerTaskDone(w)

\* ------------------------------------------------------ the child process
\* The external command exits on its own, at any time.  The children are
\* followed for as long as the process lives.
ChildExit(i) ==
    /\ Running
    /\ proc[i] = "running"
    /\ hist[i].terminated = 0
    /\ proc' = [proc EXCEPT ![i] = "zombie"]
    /\ UNCHANGED <<args, urls, mainpc, mainidx, exit_code, queue, unfinished_tasks, workers, hist>>

\* A child that was sent SIGTERM dies of it, now or later, or never (it may
\* ignore the signal).
ChildKilled(i) ==
    /\ Running
    /\ proc[i] = "running"
    /\ hist[i].terminated > 0
    /\ proc' = [proc EXCEPT ![i] = "killed"]
    /\ UNCHANGED <<args, urls, mainpc, mainidx, exit_code, queue, unfinished_tasks, workers, hist>>

Next ==
    \/ MainStep
    \/ Interrupt
    \/ \E w \in Workers : WorkerStep(w)
    \/ \E i \in Items : ChildExit(i)
    \/ \E i \in Items : ChildKilled(i)

Spec == Init /\ [][Next]_vars

\* Every thread that can take a step eventually takes one; nothing is
\* assumed of the child processes or of the operator.
FairSpec ==
    /\ Spec
    /\ WF_vars(MainStep)
    /\ \A w \in Workers : WF_vars(WorkerStep(w))

\* ------------------------------------------------------------ FilterSpec
\* load_target_urls on every document, include list and exclude list.
FilterDocs == BadDocs \cup {OkDoc(r) : r \in ResultsUpTo(MaxEntries)}

FilterFilters == [included_codes : CodeFilters, excluded_codes : CodeFilters]

\* --threads and --timeout are left at their defaults: load_target_urls does
\* not read them.
FilterInit ==
    InitWith(Arguments(FilterDocs, FilterFilters, {DefaultThreads}, {DefaultTimeout}))

FilterNext ==
    \/ MainLoadFails
    \/ MainLoad

FilterSpec == FilterInit /\ [][FilterNext]_vars

\* ExecSpec: what cutycapt_exec builds from a URL and a template.  The
\* documents hold one sub-path, once or twice, under the base URL "h"; the
\* sub-paths are the short strings over URLChars and the two placeholders;
\* two workers take the items and call Popen.
URLChars == {"a", "1", ".", "=", "/", ":", "?", " "}

ExecPaths == SeqsUpTo(URLChars, MaxPathLen) \cup {URLToken, FileNameToken}

ExecDoc(path, n) ==
    OkDoc([b \in {<<"h">>} |-> [k \in 1..n |-> [path |-> path, status |-> 200]]])

ExecDocs == {ExecDoc(path, n) : path \in ExecPaths, n \in {1, 2}}

\* Templates: the one of the runs, one with %URL% twice, one with two
\* spaces in a row.
ExecTemplates ==
    {RunTemplate,
     URLToken \o <<" ">> \o URLToken,
     <<"c", " ", " ">> \o FileNameToken}

ExecInit ==
    InitWith(ArgumentsWith(ExecDocs, {[included_codes |-> {}, excluded_codes |-> {}]},
                           {2}, {DefaultTimeout}, ExecTemplates))

ExecNext ==
    \/ MainLoad
    \/ MainCheckTargets
    \/ MainPut
    \/ MainPopulated
    \/ MainStartWorker
    \/ MainStarted
    \/ \E w \in Workers : WorkerGet(w)
    \/ \E w \in Workers : WorkerSpawn(w)
    \/ \E w \in Workers : WorkerSpawnFails(w)

ExecSpec == ExecInit /\ [][ExecNext]_vars

\* EdgeSpec: whole runs on inputs that Spec leaves out: a negative
\* --timeout, which argparse's type=int accepts, and a document whose two
\* URLs, "h/a" and "h_a", differ; with them, the documents that end a run
\* before any work.
EdgeTimeouts == {-1, 0, 1}

EdgeDoc ==
    OkDoc([b \in {<<"h">>} |->
             <<[path |-> <<"/", "a">>, status |-> 200],
               [path |-> <<"_", "a">>, status |-> 200]>>])

EdgeDocs == BadDocs \cup {RunDoc(0), EdgeDoc}

EdgeInit ==
    InitWith(Arguments(EdgeDocs, {[included_codes |-> {}, excluded_codes |-> {}]},
                       {1, 2}, EdgeTimeouts))

EdgeSpec == EdgeInit /\ [][Next]_vars

\* ================================================================ claims
Targets == 1..Len(urls)

\* Worker w has claimed item i and not yet acknowledged it.
InFlight(w, i) ==
    /\ workers[w].url = i
    /\ workers[w].pc \in {"exec", "poll", "check", "task_done"}

RECURSIVE Total(_, _)
Total(f, D) ==
    IF D = {} THEN 0
    ELSE LET k == CHOOSE x \in D : TRUE
         IN  f[k] + Total(f, D \ {k})

\* C1: every item of the queue (equal URLs are separate items) is claimed by
\* at most one worker and cutycapt_exec is called on it at most once, at
\* every moment and under every interleaving; and a run that has exited with
\* status 0 has claimed every item once, called cutycapt_exec on it once and
\* acknowledged it once, so it made exactly len(urls) capture attempts.
C1_ExactlyOnce ==
    /\ \A i \in Items :
          /\ hist[i].claimed <= 1
          /\ hist[i].invoked <= hist[i].claimed
          /\ hist[i].acked <= hist[i].invoked
          /\ Cardinality({w \in Workers : InFlight(w, i)}) <= 1
          /\ i \notin Targets => hist[i].claimed = 0
    /\ exit_code = 0 =>
          /\ \A i \in Targets :
                hist[i].claimed = 1 /\ hist[i].invoked = 1 /\ hist[i].acked = 1
          /\ Total([i \in Items |-> hist[i].invoked], Items) = Len(urls)

\* Two workers have each captured one of two equal URLs and the run has
\* exited with status 0.
C1_Witness ==
    /\ exit_code = 0
    /\ Len(urls) = 2
    /\ urls[1] = urls[2]
    /\ workers[1].url # 0
    /\ workers[2].url # 0
    /\ workers[1].url # workers[2].url

\* No item is unclaimed and every item has been claimed, captured and
\* acknowledged.
Drained ==
    /\ QueueEmpty(queue)
    /\ unfinished_tasks = 0
    /\ \A i \in Targets : hist[i].outcome # "none" /\ hist[i].acked = 1
    /\ \A w \in Workers, i \in Targets : ~InFlight(w, i)

\* One step of the main thread keeps the order of its events: a remaining
\* count is reported only after a test that found the queue non-empty, the
\* wait for the acknowledgements starts only after a test that found it
\* empty, the final report is made only when the wait has ended, and no
\* remaining count is reported once the wait has started.
OrchestratorOrder ==
    /\ (mainpc' = "report" /\ mainpc # "report") => mainpc = "loop" /\ ~QueueEmpty(queue)
    /\ (mainpc' = "join" /\ mainpc # "join") => mainpc = "loop" /\ QueueEmpty(queue)
    /\ (mainpc' = "finish" /\ mainpc # "finish") => mainpc = "join" /\ unfinished_tasks = 0
    /\ (exit_code' = 0 /\ exit_code # 0) => mainpc = "finish"
    /\ mainpc \in {"join", "finish"} => mainpc' \in {"join", "finish", "exit"}
    /\ mainpc = "exit" => mainpc' = "exit" /\ exit_code' = exit_code

\* C2: the final count is reported, and the process exits with status 0,
\* only when the queue holds no unclaimed item and every claimed item has
\* been acknowledged after its capture returned; and the main thread's
\* events come in the order: remaining counts while the queue is found
\* non-empty, then the wait for the acknowledgements, then the final report.
C2_ExitOnlyWhenDrained ==
    /\ []((mainpc = "finish" \/ exit_code = 0) => Drained)
    /\ [][OrchestratorOrder]_vars

\* The run has exited with status 0 after reporting a remaining count:
\* the one worker has captured both items.
C2_Witness ==
    /\ exit_code = 0
    /\ Len(urls) = 2
    /\ args.worker_threads = 1
    /\ \A i \in Targets : hist[i].acked = 1

\* Popen could not start the child of some item.
SpawnFailed == \E i \in Items : hist[i].outcome = "SpawnFailure"

\* C3: with a non-empty target list, at least one worker and a timeout of
\* at least a second, whatever the children do once started (no spawn
\* fails, and the operator does not interrupt), the run eventually exits
\* with status 0.
C3_EventuallyExit0 ==
    <>(\/ exit_code \in {0, 3}
       \/ SpawnFailed
       \/ args.worker_threads < 1
       \/ args.timeout < 1
       \/ (mainpc = "exit" /\ urls = <<>>))

\* C4: a worker that could not start the child of its item does not crash:
\* it acknowledges the item and goes on.
C4_SpawnFailureContained ==
    \A w \in Workers :
        workers[w].pc = "crashed" => hist[workers[w].url].outcome # "SpawnFailure"

\* The child of item i exited before the polling loop ran out of attempts:
\* it is a poll() of the loop that reaped it, and the loop had attempts.
ExitedWithinBudget(i) ==
    /\ proc[i] = "reaped"
    /\ args.timeout * 10 > 0

\* C5: a capture whose child exits within the budget, the last interval
\* included, is classified by the exit code alone (0 is Success, anything
\* else NonZeroExit): it is never logged as timed out and terminate() is
\* never called on that child.
C5_ExitWithinBudgetClassified ==
    \A i \in Items :
        (ExitedWithinBudget(i) /\ hist[i].outcome # "none") =>
            /\ hist[i].outcome = (IF hist[i].returncode = 0 THEN "Success" ELSE "NonZeroExit")
            /\ hist[i].returncode \in ExitCodes
            /\ hist[i].terminated = 0

\* The child of item i has not exited on its own.
NeverExited(i) == proc[i] \in {"running", "killed"}

\* C6: with timeout >= 1, a capture whose child does not exit on its own
\* leaves the polling loop only after timeout * 10 sleeps, is then logged as
\* timed out, with terminate() called once and cutycapt_exec called once,
\* and the worker does not crash: it holds the item for task_done() or has
\* acknowledged it.
C6_TimeoutAfterBudget ==
    args.timeout >= 1 =>
        /\ \A w \in Workers :
              (workers[w].pc \in {"check", "task_done", "crashed"}
                  /\ workers[w].url # 0 /\ NeverExited(workers[w].url)) =>
                      /\ workers[w].polls = args.timeout * 10
                      /\ workers[w].pc # "crashed"
        /\ \A i \in Items :
              (NeverExited(i) /\ hist[i].outcome # "none") =>
                  /\ hist[i].outcome = "TimedOut"
                  /\ hist[i].waited = args.timeout * 10
                  /\ hist[i].terminated = 1
                  /\ hist[i].invoked = 1
                  /\ \/ hist[i].acked = 1
                     \/ \E w \in Workers : workers[w].url = i /\ workers[w].pc = "task_done"

\* The one worker timed out on the first item, whose child still runs,
\* acknowledged it and has claimed the second item.
C6_Witness ==
    /\ args.timeout >= 1
    /\ args.worker_threads = 1
    /\ \E i, j \in Targets :
          /\ i # j
          /\ proc[i] = "running"
          /\ hist[i].outcome = "TimedOut"
          /\ hist[i].acked = 1
          /\ InFlight(1, j)

\* cutycapt_exec has returned for item i.
CaptureReturned(i) ==
    /\ hist[i].outcome \in {"Success", "NonZeroExit", "TimedOut"}
    /\ \A w \in Workers : workers[w].url = i => workers[w].pc # "check"

\* C7: a child whose capture has returned is no longer running.
C7_NoChildOutlivesCapture ==
    \A i \in Items : CaptureReturned(i) => proc[i] # "running"

\* The (base URL, position) pairs of the document's sub-path entries.
Entries(results) ==
    UNION {{<<url, k>> : k \in 1..Len(results[url])} : url \in DOMAIN results}

\* The entries the status-code policy keeps: not excluded, and included
\* when there is an include list.
Matching(results, included_codes, excluded_codes) ==
    {e \in Entries(results) :
        LET status == results[e[1]][e[2]].status
        IN  /\ status \notin excluded_codes
            /\ included_codes = {} \/ status \in included_codes}

\* C8: the list load_target_urls returns is a rearrangement of the
\* multiset of base URL + path over the entries the policy keeps: some
\* one-to-one pairing of the list's positions with the kept entries gives
\* every position the URL of its entry.  So no status code that is excluded
\* (included or not) is behind any URL of the list, the list is no longer
\* than the document has entries, and an empty document gives the empty
\* list.
C8_FilterIsPermutation ==
    (mainpc = "check") =>
        LET results == args.results_file.results
            kept == Matching(results, args.included_codes, args.excluded_codes)
        IN  /\ Len(urls) = Cardinality(kept)
            /\ \E pairing \in [1..Len(urls) -> kept] :
                  /\ \A i, j \in 1..Len(urls) : i # j => pairing[i] # pairing[j]
                  /\ \A i \in 1..Len(urls) :
                        urls[i] = pairing[i][1] \o results[pairing[i][1]][pairing[i][2]].path
            /\ Len(urls) <= Cardinality(Entries(results))
            /\ \A i \in 1..Len(urls) :
                  \E e \in Entries(results) :
                      /\ urls[i] = e[1] \o results[e[1]][e[2]].path
                      /\ results[e[1]][e[2]].status \notin args.excluded_codes
            /\ Entries(results) = {} => urls = <<>>

\* A document of three entries under two base URLs, one of them with a
\* status code that is both included and excluded, gave two different URLs.
C8_Witness ==
    /\ mainpc = "check"
    /\ Len(urls) = 2
    /\ urls[1] # urls[2]
    /\ Cardinality(Entries(args.results_file.results)) = 3
    /\ Cardinality(DOMAIN args.results_file.results) = 2
    /\ args.included_codes \cap args.excluded_codes # {}
    /\ \E e \in Entries(args.results_file.results) :
          args.results_file.results[e[1]][e[2]].status
              \in args.included_codes \cap args.excluded_codes

\* Loading the results raised, or no sub-path passed the filter.
NothingToCapture ==
    \/ args.results_file.kind # "ok"
    \/ (mainpc # "load" /\ urls = <<>>)

\* C9: in a run whose results cannot be loaded, or whose filtered target
\* list is empty, nothing is put in the queue, no worker is started and no
\* child is spawned; the main thread goes from the load (and the check of
\* the list) to the exit, with status 1 (3 if the operator interrupts it
\* first) and never 0.
C9_NoWorkOnBadInput ==
    NothingToCapture =>
        /\ queue = <<>>
        /\ unfinished_tasks = 0
        /\ \A w \in Workers : workers[w].pc = "unstarted"
        /\ \A i \in Items : proc[i] = "none" /\ hist[i] = NoHist
        /\ mainpc \in {"load", "check", "exit"}
        /\ exit_code \in {-1, 1, 3}
        /\ mainpc = "exit" <=> exit_code # -1

\* The run has exited with status 1 because the only status code of its
\* document is excluded (as well as included).
C9_Witness ==
    /\ exit_code = 1
    /\ args.results_file.kind = "ok"
    /\ Entries(args.results_file.results) # {}
    /\ args.worker_threads > 0

\* C10: an interrupt, whenever it comes, ends the process with status 3, and
\* when the process has exited with status 3 every child that was running
\* has been sent a termination signal.
C10_InterruptTerminatesChildren ==
    exit_code = 3 => \A i \in Items : proc[i] = "running" => hist[i].terminated > 0

\* The items whose capture has called Popen, hence built a file name and a
\* command.
Invoked == {i \in Targets : hist[i].invoked >= 1}

\* What one character of the URL becomes in the file name.
NameChar(c) ==
    IF c = "/" THEN <<"_">>
    ELSE IF c = ":" THEN <<"-">>
    ELSE IF c \in Letters \cup Digits \cup {"-", "_", ".", "="} THEN <<c>>
    ELSE <<>>

RECURSIVE ExpectedName(_)
ExpectedName(url) ==
    IF url = <<>> THEN <<".", "p", "n", "g">>
    ELSE NameChar(Head(url)) \o ExpectedName(Tail(url))

\* C11: the file name of a capture is the URL with every "/" turned into
\* "_", every ":" into "-", every character outside letters, digits, "-",
\* "_", "." and "=" dropped, and ".png" appended; so it holds no "/", no
\* ":" and no character outside that set, and two captures of the same URL
\* get the same name.
C11_FileNameDerivation ==
    \A i \in Invoked :
        LET name == file_name(urls[i])
        IN  /\ name = ExpectedName(urls[i])
            /\ \A k \in 1..Len(name) :
                   /\ name[k] \notin {"/", ":"}
                   /\ name[k] \in Letters \cup Digits \cup {"-", "_", ".", "="}
            /\ \A j \in Invoked : urls[j] = urls[i] => file_name(urls[j]) = name

\* A capture of the URL "h:?" was invoked: its name is "h-.png".
C11_Witness ==
    \E i \in Invoked :
        /\ urls[i] = <<"h", ":", "?">>
        /\ file_name(urls[i]) = <<"h", "-", ".", "p", "n", "g">>

\* The workers main has started.
Started == {w \in Workers : workers[w].pc # "unstarted"}

\* The items claimed and not acknowledged, and the items whose child is
\* being polled.
Held == {i \in Targets : \E w \in Workers : InFlight(w, i)}

BeingPolled == {i \in Targets : \E w \in Workers : workers[w].url = i /\ workers[w].pc = "poll"}

\* A step in which worker w alone moves.
OnlyMoves(w) ==
    /\ workers'[w] # workers[w]
    /\ \A v \in Workers \ {w} : workers'[v] = workers[v]

\* A step that starts, polls to the end, terminates or reaps the child of
\* item i is a step of the one worker that holds i, and the worker that
\* polls, terminates or reaps is the one that started the child.
OwnChildOnly ==
    \A i \in Items :
        /\ (proc[i] = NoProc /\ proc'[i] # NoProc)
               => \E w \in Workers : workers[w].url = i /\ workers[w].pc = "exec" /\ OnlyMoves(w)
        /\ (\/ proc[i] = "zombie" /\ proc'[i] = "reaped"
            \/ hist'[i].terminated # hist[i].terminated
            \/ hist'[i].returncode # hist[i].returncode)
               => \E w \in Workers :
                      /\ workers[w].url = i /\ workers[w].pc \in {"poll", "check"}
                      /\ OnlyMoves(w)

\* C12: main starts worker_threads workers and no more; a worker holds at
\* most one item at a time and an item is held by at most one worker, so
\* the items claimed and not acknowledged, and the children being polled,
\* never outnumber the workers; a child is polled, terminated and reaped
\* only by the worker that started it.
C12_WorkersBoundConcurrency ==
    /\ [](/\ Cardinality(Started) <= args.worker_threads
          /\ mainpc \in {"loop", "report", "join", "finish"}
                 => Cardinality(Started) = args.worker_threads
          /\ \A i \in Targets : Cardinality({w \in Workers : InFlight(w, i)}) <= 1
          /\ Cardinality(Held) <= args.worker_threads
          /\ Cardinality(BeingPolled) <= args.worker_threads)
    /\ [][OwnChildOnly]_vars

\* Two workers were asked for and both are polling a child of their own.
C12_Witness ==
    /\ args.worker_threads = 2
    /\ Cardinality(Started) = 2
    /\ Cardinality(BeingPolled) = 2
    /\ workers[1].url # workers[2].url

\* The items claimed and not yet acknowledged, and the items acknowledged.
Unacked == {i \in Targets : hist[i].claimed > hist[i].acked}

Acked == {i \in Targets : hist[i].acked >= 1}

\* Main is past the loop that fills the queue.
WorkersRun == Started # {} \/ mainpc \in {"start", "loop", "report", "join", "finish"}

\* The first worker is started on a queue that holds every target, and a
\* step taken once workers run never makes the queue longer.
NeverRefilled ==
    /\ (Started = {} /\ Started' # {}) => Len(queue) = Len(urls)
    /\ WorkersRun => Len(queue') <= Len(queue)

\* C13: the queue holds every target before the first worker is started
\* and nothing is added to it afterwards, so the count of unclaimed items
\* never goes up; once workers run, unclaimed + claimed-and-unacknowledged
\* + acknowledged = len(urls), and no item is acknowledged more often than
\* it was claimed.
C13_QueueConservation ==
    /\ [](/\ WorkersRun =>
                 Len(queue) + Cardinality(Unacked) + Cardinality(Acked) = Len(urls)
          /\ \A i \in Targets : hist[i].acked <= hist[i].claimed
          /\ Cardinality(Acked) <= Cardinality({i \in Targets : hist[i].claimed >= 1}))
    /\ [][NeverRefilled]_vars

\* Of two targets one is acknowledged and the other is claimed and not
\* acknowledged; the queue is empty.
C13_Witness ==
    /\ Len(urls) = 2
    /\ WorkersRun
    /\ queue = <<>>
    /\ Cardinality(Unacked) = 1
    /\ Cardinality(Acked) = 1

\* The sleeps that a polling loop with this timeout may make.
Budget(timeout) == IF timeout > 0 THEN timeout * PollsPerSecond ELSE 0

\* C14: whatever integer --timeout is, a polling loop sleeps no more often
\* than the timeout allows (never, for a timeout of zero or less), so the
\* loop ends and the capture returns though the child never exits.
C14_PollsBounded ==
    \A w \in Workers :
        workers[w].pc \in {"poll", "check"} => workers[w].polls <= Budget(args.timeout)

\* The file names given to the captures invoked so far.
Names == {file_name(urls[i]) : i \in Invoked}

\* C15: no two captures of a run are given the same file name: the file
\* names of the captures invoked are as many as those captures.
C15_DistinctFileNames ==
    /\ \A i \in Invoked : \A j \in Invoked \ {i} :
           file_name(urls[i]) # file_name(urls[j])
    /\ Cardinality(Names) = Cardinality(Invoked)

\* The whitespace-separated tokens of a string: its longest pieces without
\* a space.
RECURSIVE Tokens(_)
Tokens(s) ==
    IF s = <<>> THEN <<>>
    ELSE IF Head(s) = " " THEN Tokens(Tail(s))
    ELSE LET n == CHOOSE k \in 1..Len(s) :
                      /\ \A m \in 1..k : s[m] # " "
                      /\ k = Len(s) \/ s[k + 1] = " "
         IN  <<SubSeq(s, 1, n)>> \o Tokens(SubSeq(s, n + 1, Len(s)))

\* A token of the template with each placeholder replaced, the text put in
\* being left as it is.
RECURSIVE Substituted(_, _)
Substituted(token, url) ==
    IF token = <<>> THEN <<>>
    ELSE IF StartsWith(token, URLToken)
         THEN url \o Substituted(SubSeq(token, Len(URLToken) + 1, Len(token)), url)
    ELSE IF StartsWith(token, FileNameToken)
         THEN file_name(url)
                  \o Substituted(SubSeq(token, Len(FileNameToken) + 1, Len(token)), url)
    ELSE <<Head(token)>> \o Substituted(Tail(token), url)

ExpectedCommand(url, command_template) ==
    [k \in 1..Len(Tokens(command_template)) |->
        Substituted(Tokens(command_template)[k], url)]

\* C16: the argument list given to Popen has one argument for each
\* whitespace-separated token of the template, and each argument is its
\* token with every %URL% replaced by the URL and every %FILENAME% by the
\* file name, the URL being put in as it is: not substituted again and not
\* split.
C16_LiteralSubstitution ==
    \A i \in Invoked :
        Command(urls[i], args.command_template)
            = ExpectedCommand(urls[i], args.command_template)
====
